---- MODULE Spec2Model ----
(***************************************************************************)
(* A model of the serenade music bot: the per-guild track queue            *)
(* (src/music/queue.py), the per-guild player and the voice transport it   *)
(* drives (src/music/player.py, Player), the buffered audio source         *)
(* (src/music/player.py, YTDLPAudioSource) and the command layer that      *)
(* calls them (src/bot.py).                                                *)
(*                                                                         *)
(* Several specifications share the module.  SpecQueue drives one          *)
(* GuildQueue through its public operations.  Spec drives one Player, its  *)
(* queue and its voice client through the commands, the transport's        *)
(* completion callback and the idle timer, as the asyncio event loop       *)
(* interleaves them; SpecLoad is Spec with the entries counted that a      *)
(* playlist load skips.  SpecSource runs the producer thread of one audio  *)
(* source against the consumer's read() and cleanup() calls.  SpecResolve  *)
(* applies Resolver.resolve (src/resolver.py) to every input and provider  *)
(* answer, and SpecPlaylist steps one playlist iterator of the resolver.   *)
(* SpecRegistry follows the queue and player registries of the bot through *)
(* the commands of several guilds.                                         *)
(***************************************************************************)
EXTENDS Naturals, Integers, Sequences, FiniteSets, TLC

VARIABLES
    \* GuildQueue
    queue,          \* _queue: the pending tracks, head first
    current,        \* current: the track last returned by next(), or NoTrack
    shuffle,        \* shuffle flag
    \* history of one queue (SpecQueue)
    added,          \* every track passed to add(), in call order
    returned,       \* every track returned by next(), in call order
    usedShuffle,    \* next() has picked a track with shuffle enabled
    usedClear,      \* clear() has been called
    listed,         \* the list get_list() returned, while its caller holds it
    nAdded,         \* number of tracks created so far (the next track's id - 1)
    \* the voice client of the guild (discord.VoiceClient), as the Player uses it
    connected,      \* is_connected()
    vcPlayer,       \* the transport's audio player: "none", "playing" or "paused"
    nowPlaying,     \* the track whose source the transport holds, or NoTrack
    scheduled,      \* play_next() calls the after callbacks put on the event loop,
                    \* oldest first, each named by what ended its stream
    \* Player
    idle_task,      \* _idle_task: "None", "sleeping", "disconnecting" or "done"
    idleTasks,      \* number of _idle_disconnect tasks the event loop holds that
                    \* have neither finished nor been cancelled
    stopPc,         \* stop(): "no", "awaiting" (the disconnect) or "returned"
    disconnectCalls,\* number of on_disconnect() invocations
    lastNext,       \* what the most recent queue.next() returned
    \* command layer (bot.py)
    registered,     \* the player and queue registries hold this session
    loader,         \* the playlist-loading task: its position, its requester,
                    \* the tracks it added, the entries its iterator skipped
                    \* and the summary it sent
    \* the registries of the bot (bot.queues, bot.players)
    queues,         \* QueueManager._queues: the guild ids that have a queue
    players,        \* PlayerManager._players: the guild ids that have a player
    \* YTDLPAudioSource
    buffer_frames,  \* _buffer_frames: the capacity of _buffer
    prebuffer_frames, \* _prebuffer_frames
    buffer,         \* _buffer: the frames put and not yet got, oldest first
    stop_event,     \* _stop_event is set
    prebuffer_ready,\* _prebuffer_ready is set
    eof,            \* _eof
    ffmpeg,         \* _ffmpeg: "running", or "None" once killed and dropped
    process,        \* _process (yt-dlp): "running", or "None" once killed and dropped
    bufPc,          \* _buffer_loop: "test", "read", "put" or "done"
    data,           \* _buffer_loop: the frame read and not yet put (0: none)
    frames_buffered,\* _buffer_loop: frames put so far
    framesLeft,     \* full frames the transcoder has still to write
    nRead,          \* full frames read from the transcoder so far
    readPc,         \* read(): "idle", "wait", "get" or "empty"
    readResult,     \* what the last read() returned
    cleanPc,        \* cleanup(): "idle", "join" or "kill"
    cleanups,       \* cleanup() calls that have returned
    kills,          \* kill() calls made on the two processes
    delivered,      \* the numbers of the frames read() has returned, in call order
    dropped,        \* the numbers of the frames discarded on a full buffer
    \* Resolver.resolve (src/resolver.py) and what the providers answer
    query,          \* the input string
    ytmusic,        \* ytmusic.search_track: the answer to each search string
    spotify_info,   \* spotify.get_track(url): the track dict, or none
    video_metadata, \* youtube.get_video_metadata(url): the metadata, or none
    result,         \* what resolve() returned or raised
    \* one playlist iterator (Resolver.iter_*_playlist)
    plType,         \* "youtube" or "spotify" ("none": no iterator)
    listing,        \* what the provider listed
    itPc,           \* the generator: "none", "created", "running", "done", "raised"
    itPos,          \* entries of the listing the loop has gone through
    nYielded,       \* tracks yielded so far
    lastYielded,    \* the position of the entry yielded last (0: none yet)
    nSkipped,       \* entries skipped so far
    \* what the last operation was and what it returned
    lastOp,
    ret

qvars == <<queue, current, shuffle>>
hvars == <<added, returned, usedShuffle, usedClear, listed>>
tvars == <<connected, vcPlayer, nowPlaying, scheduled>>
pvars == <<idle_task, idleTasks, stopPc, disconnectCalls, lastNext>>
cvars == <<registered, loader>>
gvars == <<queues, players>>
svars == <<buffer_frames, prebuffer_frames, buffer, stop_event, prebuffer_ready,
           eof, ffmpeg, process, bufPc, data, frames_buffered, framesLeft, nRead,
           readPc, readResult, cleanPc, cleanups, kills, delivered, dropped>>
rvars == <<query, ytmusic, spotify_info, video_metadata, result>>
lvars == <<plType, listing, itPc, itPos, nYielded, lastYielded, nSkipped>>
ovars == <<lastOp, ret>>
vars == <<qvars, hvars, nAdded, tvars, pvars, cvars, gvars, svars, rvars, lvars, ovars>>

----------------------------------------------------------------------------
(* Bounds of the model *)

\* tracks ever passed to add() on one queue
MaxAdds == 3

\* completion callbacks waiting on the event loop at one time
MaxScheduled == 2

\* capacity of the frame buffer (buffer_seconds * FRAMES_PER_SECOND)
MaxBuffer == 2

\* prebuffer threshold (prebuffer_seconds * FRAMES_PER_SECOND)
MaxPrebuffer == 2

\* full frames the transcoder writes for one track
MaxStream == 3

\* cleanup() calls on one source
MaxCleanups == 2

\* substrings of the ones resolve() looks for that one input holds
MaxMarkers == 2

\* entries of a short playlist listing
MaxShort == 2

\* entries a long playlist listing has beyond MAX_PLAYLIST_TRACKS
MaxOver == 1

\* entries the iterator of one playlist load skips
MaxSkips == 1

\* guilds that send commands
MaxGuilds == 3

----------------------------------------------------------------------------
(* Constants of src/music/player.py and src/resolver.py *)

FRAME_SIZE == 3840

MAX_PLAYLIST_TRACKS == 500

----------------------------------------------------------------------------
(* Track (src/models/track.py): only the identity of the instance and its  *)
(* requested_by matter to the queue; requested_by is None until set.       *)

Requesters == {"None", "alice", "bob"}

Track(i, by) == [id |-> i, requested_by |-> by]

\* Python's None where a Track is expected
NoTrack == [id |-> 0, requested_by |-> "None"]

----------------------------------------------------------------------------
(* GuildQueue (src/music/queue.py) *)

keep_all(q, i) == q

\* popleft (i = 1) and `del self._queue[idx]`: the other tracks keep their order
RemoveAt(q, i) == [k \in 1..(Len(q) - 1) |-> IF k < i THEN q[k] ELSE q[k + 1]]

\* add: append, return the position of the new track
add(q, t) == Append(q, t)

add_position(q, t) == Len(add(q, t)) - 1

\* prev_requester of _pick_shuffle_track
prev_requester(cur) == IF cur # NoTrack THEN cur.requested_by ELSE "None"

all_indices(q, cur) == DOMAIN q

\* the indices _pick_shuffle_track chooses from: the tracks of other
\* requesters when there are any, every track otherwise
shuffle_indices(q, cur) ==
    LET other_indices == {i \in DOMAIN q : q[i].requested_by # prev_requester(cur)}
    IN  IF other_indices # {} THEN other_indices ELSE DOMAIN q

last_index(q) == {Len(q)}

\* popleft
fifo_indices(q) == {1}

\* the indices next() may take its track from, for a non-empty q
next_indices(q, cur, sh) == IF sh THEN shuffle_indices(q, cur) ELSE fifo_indices(q)

keep_current(cur) == cur

\* next() on an empty queue: current is reset to None
empty_next_current(cur) == NoTrack

keep_pending(q) == q

\* clear
clear(q) == <<>>

newest_first(q) == [i \in 1..Len(q) |-> q[Len(q) + 1 - i]]

\* get_list: a copy of the pending tracks
get_list(q) == q

----------------------------------------------------------------------------
(* Resolver (src/resolver.py) and the providers it asks (src/clients).     *)
(* A string is kept as the set of the substrings resolve() looks for that  *)
(* it holds, and the rest of its text.                                     *)

Markers ==
    {"youtube.com/playlist", "youtube.com/watch", "youtu.be/", "music.youtube.com",
     "open.spotify.com/track", "spotify:track:",
     "open.spotify.com/playlist", "spotify:playlist:"}

Url(ms, text) == [markers |-> ms, text |-> text]

\* the empty string
EmptyUrl == Url({}, "")

\* `m in query`
Contains(q, m) == m \in q.markers

\* f"https://www.youtube.com/watch?v={video_id}"
WatchUrl(video_id) == Url({"youtube.com/watch"}, video_id)

\* f"https://music.youtube.com/watch?v={video_id}"
MusicUrl(video_id) == Url({"music.youtube.com", "youtube.com/watch"}, video_id)

\* the inputs of resolve(): free text (no marker) and URLs
Queries ==
    {Url(ms, text) : ms \in {m \in SUBSET Markers : Cardinality(m) <= MaxMarkers},
                     text \in {"", "song"}}

detect_spotify_first(q) ==
    IF Contains(q, "open.spotify.com/track") \/ Contains(q, "spotify:track:")
    THEN "spotify_track"
    ELSE IF Contains(q, "youtube.com/playlist") THEN "youtube_playlist"
    ELSE IF Contains(q, "youtube.com/watch") \/ Contains(q, "youtu.be/") THEN "youtube_video"
    ELSE IF Contains(q, "music.youtube.com") THEN "youtube_video"
    ELSE IF Contains(q, "open.spotify.com/playlist") \/ Contains(q, "spotify:playlist:")
    THEN "spotify_playlist"
    ELSE "search"

\* _detect_input_type
detect_input_type(q) ==
    IF Contains(q, "youtube.com/playlist") THEN "youtube_playlist"
    ELSE IF Contains(q, "youtube.com/watch") \/ Contains(q, "youtu.be/") THEN "youtube_video"
    ELSE IF Contains(q, "music.youtube.com") THEN "youtube_video"
    ELSE IF Contains(q, "open.spotify.com/track") \/ Contains(q, "spotify:track:")
    THEN "spotify_track"
    ELSE IF Contains(q, "open.spotify.com/playlist") \/ Contains(q, "spotify:playlist:")
    THEN "spotify_playlist"
    ELSE "search"

\* Track (src/models/track.py) as the resolver builds it; requested_by is
\* left None
TrackOf(title, artist, duration_ms, album_art_url, youtube_url, source_url) ==
    [title |-> title, artist |-> artist, duration_ms |-> duration_ms,
     album_art_url |-> album_art_url, youtube_url |-> youtube_url,
     source_url |-> source_url]

\* TrackMetadata (src/models/track.py)
TrackMetadata(title, artist, duration_ms, album_art_url, source_url) ==
    [title |-> title, artist |-> artist, duration_ms |-> duration_ms,
     album_art_url |-> album_art_url, source_url |-> source_url]

NoMetadata == TrackMetadata("", "", 0, "None", EmptyUrl)

\* YTMusicClient.search_track: None, or (metadata, video_id) with a video id
\* that is not empty
VideoIds == {"v1", "v2"}

SearchNone == [found |-> FALSE, video_id |-> "", metadata |-> NoMetadata]

SearchFound(video_id) ==
    [found |-> TRUE, video_id |-> video_id,
     metadata |-> TrackMetadata("yt-title", "yt-artist", 2000, "yt-art", MusicUrl(video_id))]

SearchResults == {SearchNone} \cup {SearchFound(v) : v \in VideoIds}

\* SpotifyScraperClient.get_track: None, or a dict with name, artists,
\* duration_ms and album
SpotifyNone == [found |-> FALSE, name |-> "", artists |-> <<>>, duration_ms |-> 0, art |-> "None"]

SpotifyTrack(artists) ==
    [found |-> TRUE, name |-> "T", artists |-> artists, duration_ms |-> 1000, art |-> "sp-art"]

SpotifyInfos == {SpotifyNone, SpotifyTrack(<<>>), SpotifyTrack(<<"A">>)}

\* YouTubeClient.get_video_metadata: None on a DownloadError, or the
\* metadata of the video, whose source_url is the URL asked for
VideoNone == [found |-> FALSE, metadata |-> NoMetadata]

VideoFound(video_url) ==
    [found |-> TRUE,
     metadata |-> TrackMetadata("v-title", "v-uploader", 3000, "v-thumb", video_url)]

\* the strings search_track() is called with
SearchStrings == {"", "song", "T ", "T A"}

\* what resolve() returns (a list of tracks) or raises
Returns(tracks) == [kind |-> "tracks", tracks |-> tracks, reason |-> ""]

Raises(reason) == [kind |-> "ValueError", tracks |-> <<>>, reason |-> reason]

NotCalled == [kind |-> "none", tracks |-> <<>>, reason |-> ""]

search_returns_empty(q, ytm) ==
    LET search == ytm[q.text]
    IN  IF ~search.found
        THEN Returns(<<>>)
        ELSE Returns(<<TrackOf(search.metadata.title, search.metadata.artist,
                               search.metadata.duration_ms, search.metadata.album_art_url,
                               WatchUrl(search.video_id), search.metadata.source_url)>>)

\* _resolve_search: a query classified as a search holds none of the
\* substrings, so it is its text
resolve_search(q, ytm) ==
    LET search == ytm[q.text]
    IN  IF ~search.found
        THEN Raises("No results for: {query}")
        ELSE Returns(<<TrackOf(search.metadata.title, search.metadata.artist,
                               search.metadata.duration_ms, search.metadata.album_art_url,
                               WatchUrl(search.video_id), search.metadata.source_url)>>)

\* _resolve_youtube_video
resolve_youtube_video(url, video) ==
    IF ~video.found
    THEN Raises("Could not load: {url}")
    ELSE Returns(<<TrackOf(video.metadata.title, video.metadata.artist,
                           video.metadata.duration_ms, video.metadata.album_art_url,
                           url, url)>>)

\* f"{title} {artist}", artist being the first artist's name or ""
search_query(track_info) ==
    track_info.name \o " " \o
        (IF track_info.artists # <<>> THEN track_info.artists[1] ELSE "")

spotify_track_unsearched(url, track_info, ytm) ==
    IF ~track_info.found
    THEN Raises("Could not load Spotify track: {url}")
    ELSE Returns(<<TrackOf(track_info.name,
                           IF track_info.artists # <<>> THEN track_info.artists[1] ELSE "",
                           track_info.duration_ms, track_info.art, url, url)>>)

\* _resolve_spotify_track
resolve_spotify_track(url, track_info, ytm) ==
    IF ~track_info.found
    THEN Raises("Could not load Spotify track: {url}")
    ELSE LET search == ytm[search_query(track_info)]
         IN  IF ~search.found
             THEN Raises("Could not find on YouTube: {search_query}")
             ELSE Returns(<<TrackOf(track_info.name,
                                    IF track_info.artists # <<>>
                                    THEN track_info.artists[1] ELSE "",
                                    track_info.duration_ms, track_info.art,
                                    WatchUrl(search.video_id), url)>>)

\* A playlist listing: its length and the positions of the entries that do
\* not give a track (a video entry without an id; a catalog entry for which
\* the search finds nothing).  Every other entry gives one.
SpecialPositions == {1, 2, MAX_PLAYLIST_TRACKS, MAX_PLAYLIST_TRACKS + 1}

ListingLengths ==
    (0..MaxShort) \cup ((MAX_PLAYLIST_TRACKS - 1)..(MAX_PLAYLIST_TRACKS + MaxOver))

Listings ==
    UNION {{[len |-> n, bad |-> b] : b \in SUBSET {i \in SpecialPositions : i <= n}} :
           n \in ListingLengths}

NoListing == [len |-> 0, bad |-> {}]

Min(a, b) == IF a <= b THEN a ELSE b

\* entries[:MAX_PLAYLIST_TRACKS]: the number of entries the loop goes through
iter_limit(ls) == Min(ls.len, MAX_PLAYLIST_TRACKS)

raise_on_bad_entry(type, ls, i) == IF i \in ls.bad THEN "raise" ELSE "yield"

\* one turn of the loop of iter_youtube_playlist (an entry without an id:
\* continue) or of iter_spotify_playlist (ValueError out of
\* _spotify_track_info_to_track: continue)
entry_outcome(type, ls, i) == IF i \in ls.bad THEN "skip" ELSE "yield"

\* the Track an entry gives: of the entry and "YouTube" for a video entry, of
\* the track dict and the search result for a catalog entry
playlist_track(type, url, i) ==
    IF type = "youtube"
    THEN TrackOf("e-title", "YouTube", 0, "None", WatchUrl(ToString(i)), url)
    ELSE TrackOf("T", "A", 1000, "yt-art", WatchUrl(ToString(i)), url)

RECURSIVE iter_tracks(_, _, _, _)
\* what the generator yields from position i on
iter_tracks(type, url, ls, i) ==
    IF i > iter_limit(ls) THEN <<>>
    ELSE IF entry_outcome(type, ls, i) = "yield"
    THEN <<playlist_track(type, url, i)>> \o iter_tracks(type, url, ls, i + 1)
    ELSE iter_tracks(type, url, ls, i + 1)

\* _resolve_youtube_playlist, _resolve_spotify_playlist: list(iterator)
resolve_playlist(type, url, ls) ==
    IF ls.len = 0
    THEN Raises(IF type = "youtube" THEN "Could not load YouTube playlist: {url}"
                ELSE "Could not load Spotify playlist: {url}")
    ELSE Returns(iter_tracks(type, url, ls, 1))

\* resolve
resolve(q, ytm, track_info, video, ls) ==
    LET input_type == detect_input_type(q)
    IN  IF input_type = "youtube_video" THEN resolve_youtube_video(q, video)
        ELSE IF input_type = "youtube_playlist" THEN resolve_playlist("youtube", q, ls)
        ELSE IF input_type = "spotify_track" THEN resolve_spotify_track(q, track_info, ytm)
        ELSE IF input_type = "spotify_playlist" THEN resolve_playlist("spotify", q, ls)
        ELSE resolve_search(q, ytm)

----------------------------------------------------------------------------
(* The values the session's variables keep where no session is modelled *)

\* no summary sent
NoSummary == [sent |-> FALSE, tracks |-> 0, failed |-> 0]

NoLoader == [pc |-> "none", by |-> "None", tracks_added |-> 0, skipped |-> 0,
             summary |-> NoSummary]

NoResult == [kind |-> "none", len |-> 0, frame |-> 0]

NoSource ==
    /\ buffer_frames = 0
    /\ prebuffer_frames = 0
    /\ buffer = <<>>
    /\ stop_event = FALSE
    /\ prebuffer_ready = FALSE
    /\ eof = FALSE
    /\ ffmpeg = "None"
    /\ process = "None"
    /\ bufPc = "done"
    /\ data = 0
    /\ frames_buffered = 0
    /\ framesLeft = 0
    /\ nRead = 0
    /\ readPc = "idle"
    /\ readResult = NoResult
    /\ cleanPc = "idle"
    /\ cleanups = 0
    /\ kills = 0
    /\ delivered = <<>>
    /\ dropped = {}

NoResolver ==
    /\ query = EmptyUrl
    /\ ytmusic = [s \in SearchStrings |-> SearchNone]
    /\ spotify_info = SpotifyNone
    /\ video_metadata = VideoNone
    /\ result = NotCalled

NoIterator ==
    /\ plType = "none"
    /\ itPc = "none"
    /\ itPos = 0
    /\ nYielded = 0
    /\ lastYielded = 0
    /\ nSkipped = 0

NoPlaylist ==
    /\ listing = NoListing
    /\ NoIterator

NoRegistry ==
    /\ queues = {}
    /\ players = {}

NoQueue ==
    /\ queue = <<>>
    /\ current = NoTrack
    /\ shuffle = FALSE
    /\ added = <<>>
    /\ returned = <<>>
    /\ usedShuffle = FALSE
    /\ usedClear = FALSE
    /\ listed = <<>>
    /\ nAdded = 0

NoSession ==
    /\ connected = FALSE
    /\ vcPlayer = "none"
    /\ nowPlaying = NoTrack
    /\ scheduled = <<>>
    /\ idle_task = "None"
    /\ idleTasks = 0
    /\ stopPc = "no"
    /\ disconnectCalls = 0
    /\ lastNext = NoTrack
    /\ registered = FALSE
    /\ loader = NoLoader

----------------------------------------------------------------------------
(* SpecQueue: one GuildQueue and its callers *)

QInit ==
    /\ queue = <<>>
    /\ current = NoTrack
    /\ shuffle = FALSE
    /\ added = <<>>
    /\ returned = <<>>
    /\ usedShuffle = FALSE
    /\ usedClear = FALSE
    /\ listed = <<>>
    /\ nAdded = 0
    /\ NoSession
    /\ NoRegistry
    /\ NoSource
    /\ NoResolver
    /\ NoPlaylist
    /\ lastOp = "init"
    /\ ret = "None"

QAdd ==
    /\ nAdded < MaxAdds
    /\ \E by \in Requesters :
         LET t == Track(nAdded + 1, by)
         IN  /\ queue' = add(queue, t)
             /\ added' = Append(added, t)
    /\ nAdded' = nAdded + 1
    /\ lastOp' = "add"
    /\ ret' = "position"
    /\ listed' = <<>>
    /\ UNCHANGED <<gvars, rvars, lvars, svars, tvars, pvars, cvars, current, shuffle, returned, usedShuffle, usedClear>>

QNext ==
    /\ lastOp' = "next"
    /\ IF queue = <<>>
       THEN /\ current' = empty_next_current(current)
            /\ ret' = "None"
            /\ UNCHANGED <<queue, returned, usedShuffle>>
       ELSE \E i \in next_indices(queue, current, shuffle) :
              /\ current' = queue[i]
              /\ queue' = RemoveAt(queue, i)
              /\ returned' = Append(returned, queue[i])
              /\ usedShuffle' = (usedShuffle \/ shuffle)
              /\ ret' = "track"
    /\ listed' = <<>>
    /\ UNCHANGED <<gvars, rvars, lvars, svars, tvars, pvars, cvars, shuffle, added, usedClear, nAdded>>

QClear ==
    /\ queue' = clear(queue)
    /\ usedClear' = TRUE
    /\ lastOp' = "clear"
    /\ ret' = "None"
    /\ listed' = <<>>
    /\ UNCHANGED <<gvars, rvars, lvars, svars, tvars, pvars, cvars, current, shuffle, added, returned, usedShuffle, nAdded>>

QSetShuffle ==
    /\ \E b \in BOOLEAN : shuffle' = b
    /\ lastOp' = "shuffle"
    /\ ret' = "None"
    /\ listed' = <<>>
    /\ UNCHANGED <<gvars, rvars, lvars, svars, tvars, pvars, cvars, queue, current, added, returned, usedShuffle, usedClear, nAdded>>

\* get_list: the caller is given a copy, which it holds until its next call
\* on the queue
QList ==
    /\ listed' = get_list(queue)
    /\ lastOp' = "list"
    /\ ret' = "list"
    /\ UNCHANGED <<gvars, rvars, lvars, svars, tvars, pvars, cvars, qvars, added, returned, usedShuffle, usedClear, nAdded>>

QNextStep == QAdd \/ QNext \/ QClear \/ QSetShuffle \/ QList

SpecQueue == QInit /\ [][QNextStep]_vars

----------------------------------------------------------------------------
(* The voice client (discord.VoiceClient) as Player calls it.  play()      *)
(* refuses when the client is not connected or is playing; stop() ends the *)
(* audio player, whose thread then calls the after callback once;          *)
(* disconnect() stops the audio player and clears the connected flag       *)
(* before it awaits the teardown of the connection.                        *)

Users == {"alice", "bob"}

\* Player.is_playing: playing or paused
is_playing(vp) == vp \in {"playing", "paused"}

\* the exception voice_client.play() raises, "" when it accepts the source
play_error(conn, vp) ==
    IF ~conn THEN "ClientException: Not connected to voice."
    ELSE IF vp = "playing" THEN "ClientException: Already playing audio."
    ELSE ""

\* after_callback: voice_client.stop() on a live audio player makes its thread
\* call after_callback, which puts one play_next() on the event loop
after_callback(vp, sch, cause) == IF vp # "none" THEN Append(sch, cause) ELSE sch

----------------------------------------------------------------------------
(* Player (src/music/player.py) *)

pause_if_active(vp) == is_playing(vp)

\* pause() pauses only a playing transport
pause_ok(vp) == vp = "playing"

\* resume() resumes only a paused transport
resume_ok(vp) == vp = "paused"

\* _cancel_idle_timer: a task that is not done is cancelled and forgotten; the
\* cancellation also interrupts a disconnect the task is awaiting
cancel_idle_timer(task) ==
    IF task \in {"sleeping", "disconnecting"} THEN "None" ELSE task

cancel_forgets(task, n) == n

\* _cancel_idle_timer, on the n tasks the loop holds: cancel() ends the task
\* that is not done
tasks_after_cancel(task, n) ==
    IF task \in {"sleeping", "disconnecting"} THEN n - 1 ELSE n

\* play_next, called with the pending sequence q.  spawnOk: whether Popen
\* starts both external processes in YTDLPAudioSource.__init__.
play_next(q, spawnOk) ==
    IF q = <<>>
    THEN /\ queue' = q
         /\ current' = empty_next_current(current)
         /\ lastNext' = NoTrack
         /\ idle_task' = "sleeping"
         /\ idleTasks' = tasks_after_cancel(idle_task, idleTasks) + 1
         /\ ret' = "None"
         /\ UNCHANGED <<vcPlayer, nowPlaying>>
    ELSE \E i \in next_indices(q, current, shuffle) :
           /\ queue' = RemoveAt(q, i)
           /\ current' = q[i]
           /\ lastNext' = q[i]
           /\ idle_task' = cancel_idle_timer(idle_task)
           /\ idleTasks' = tasks_after_cancel(idle_task, idleTasks)
           /\ IF ~spawnOk
              THEN /\ ret' = "FileNotFoundError"
                   /\ UNCHANGED <<vcPlayer, nowPlaying>>
              ELSE IF play_error(connected, vcPlayer) # ""
              THEN /\ ret' = play_error(connected, vcPlayer)
                   /\ UNCHANGED <<vcPlayer, nowPlaying>>
              ELSE /\ vcPlayer' = "playing"
                   /\ nowPlaying' = q[i]
                   /\ ret' = "track"

\* pause
Pause ==
    /\ registered
    /\ IF pause_ok(vcPlayer)
       THEN vcPlayer' = "paused" /\ ret' = "True"
       ELSE vcPlayer' = vcPlayer /\ ret' = "False"
    /\ lastOp' = "pause"
    /\ UNCHANGED <<gvars, rvars, lvars, svars, hvars, qvars, nAdded, connected, nowPlaying, scheduled, pvars, cvars>>

\* resume
Resume ==
    /\ registered
    /\ IF resume_ok(vcPlayer)
       THEN vcPlayer' = "playing" /\ ret' = "True"
       ELSE vcPlayer' = vcPlayer /\ ret' = "False"
    /\ lastOp' = "resume"
    /\ UNCHANGED <<gvars, rvars, lvars, svars, hvars, qvars, nAdded, connected, nowPlaying, scheduled, pvars, cvars>>

\* skip: stops the transport's stream when there is one
Skip ==
    /\ registered
    /\ IF is_playing(vcPlayer)
       THEN /\ Len(scheduled) < MaxScheduled
            /\ scheduled' = after_callback(vcPlayer, scheduled, "skip")
            /\ vcPlayer' = "none"
            /\ nowPlaying' = NoTrack
       ELSE UNCHANGED <<vcPlayer, nowPlaying, scheduled>>
    /\ lastOp' = "skip"
    /\ ret' = "None"
    /\ UNCHANGED <<gvars, rvars, lvars, svars, hvars, qvars, nAdded, connected, pvars, cvars>>

\* stop, up to the await of voice_client.disconnect(), or to its end when the
\* client is not connected
Stop ==
    /\ registered
    /\ idle_task' = cancel_idle_timer(idle_task)
    /\ idleTasks' = tasks_after_cancel(idle_task, idleTasks)
    /\ queue' = clear(queue)
    /\ current' = NoTrack
    /\ IF connected
       THEN /\ vcPlayer = "none" \/ Len(scheduled) < MaxScheduled
            /\ scheduled' = after_callback(vcPlayer, scheduled, "disconnect")
            /\ vcPlayer' = "none"
            /\ nowPlaying' = NoTrack
            /\ connected' = FALSE
            /\ stopPc' = "awaiting"
            /\ lastOp' = "stop"
            /\ UNCHANGED <<disconnectCalls, registered>>
       ELSE /\ disconnectCalls' = disconnectCalls + 1
            /\ registered' = FALSE
            /\ stopPc' = IF stopPc = "awaiting" THEN stopPc ELSE "returned"
            /\ lastOp' = "stop_return"
            /\ UNCHANGED <<tvars>>
    /\ ret' = "None"
    /\ UNCHANGED <<gvars, rvars, lvars, svars, hvars, shuffle, nAdded, lastNext, loader>>

\* stop, from the end of the disconnect: on_disconnect(), which removes the
\* session from both registries
StopReturn ==
    /\ stopPc = "awaiting"
    /\ disconnectCalls' = disconnectCalls + 1
    /\ registered' = FALSE
    /\ stopPc' = "returned"
    /\ lastOp' = "stop_return"
    /\ ret' = "None"
    /\ UNCHANGED <<gvars, rvars, lvars, svars, hvars, qvars, nAdded, tvars, idle_task, idleTasks, lastNext, loader>>

\* _idle_disconnect, from the end of the sleep to the await of the disconnect
IdleTimeout ==
    /\ idle_task = "sleeping"
    /\ IF connected /\ ~is_playing(vcPlayer)
       THEN connected' = FALSE /\ idle_task' = "disconnecting" /\ idleTasks' = idleTasks
       ELSE connected' = connected /\ idle_task' = "done" /\ idleTasks' = idleTasks - 1
    /\ lastOp' = "idle_timeout"
    /\ ret' = "None"
    /\ UNCHANGED <<gvars, rvars, lvars, svars, hvars, qvars, nAdded, vcPlayer, nowPlaying, scheduled,
                   stopPc, disconnectCalls, lastNext, cvars>>

\* _idle_disconnect, from the end of the disconnect: on_disconnect()
IdleDisconnected ==
    /\ idle_task = "disconnecting"
    /\ idle_task' = "done"
    /\ idleTasks' = idleTasks - 1
    /\ disconnectCalls' = disconnectCalls + 1
    /\ registered' = FALSE
    /\ lastOp' = "idle_disconnected"
    /\ ret' = "None"
    /\ UNCHANGED <<gvars, rvars, lvars, svars, hvars, qvars, nAdded, tvars, stopPc, lastNext, loader>>

----------------------------------------------------------------------------
(* The transport's side *)

\* the stream of the playing track ends (end of stream, read error, or a
\* stream of zero frames): the audio player's thread calls after_callback
StreamEnds ==
    /\ vcPlayer = "playing"
    /\ Len(scheduled) < MaxScheduled
    /\ scheduled' = after_callback(vcPlayer, scheduled, "end")
    /\ vcPlayer' = "none"
    /\ nowPlaying' = NoTrack
    /\ lastOp' = "stream_end"
    /\ ret' = "None"
    /\ UNCHANGED <<gvars, rvars, lvars, svars, hvars, qvars, nAdded, connected, pvars, cvars>>

\* the event loop runs the play_next() an after callback scheduled
Completion ==
    /\ scheduled # <<>>
    /\ scheduled' = Tail(scheduled)
    /\ \E spawnOk \in BOOLEAN : play_next(queue, spawnOk)
    /\ lastOp' = "after_" \o Head(scheduled)
    /\ UNCHANGED <<gvars, rvars, lvars, svars, hvars, shuffle, nAdded, connected, stopPc, disconnectCalls, cvars>>

----------------------------------------------------------------------------
(* The command layer (src/bot.py).  The commands reach the player and the  *)
(* queue through the registries, so they act on this session only while it *)
(* is registered; the completion callbacks, the idle timer and the         *)
(* playlist loader hold their own references.  bot.py passes the keyword   *)
(* arguments text_channel= (to PlayerManager.create) and notify= (to       *)
(* play_next) that player.py does not declare; the calls are modelled with *)
(* the signatures player.py defines.                                       *)

\* play with a query that resolves to one track: add it, and play_next()
\* unless the player is playing or paused
Play ==
    /\ registered
    /\ nAdded < MaxAdds
    /\ nAdded' = nAdded + 1
    /\ \E u \in Users :
         LET q == add(queue, Track(nAdded + 1, u))
         IN  IF is_playing(vcPlayer)
             THEN /\ queue' = q
                  /\ ret' = "queued"
                  /\ UNCHANGED <<current, lastNext, idle_task, idleTasks, vcPlayer, nowPlaying>>
             ELSE \E spawnOk \in BOOLEAN : play_next(q, spawnOk)
    /\ lastOp' = "play"
    /\ UNCHANGED <<gvars, rvars, lvars, svars, hvars, shuffle, connected, scheduled, stopPc, disconnectCalls, cvars>>

\* clear
Clear ==
    /\ registered
    /\ queue' = clear(queue)
    /\ lastOp' = "clear"
    /\ ret' = "None"
    /\ UNCHANGED <<gvars, rvars, lvars, svars, hvars, current, shuffle, nAdded, tvars, pvars, cvars>>

\* shuffle
SetShuffle ==
    /\ registered
    /\ \E enabled \in BOOLEAN : shuffle' = enabled
    /\ lastOp' = "shuffle"
    /\ ret' = "None"
    /\ UNCHANGED <<gvars, rvars, lvars, svars, hvars, queue, current, nAdded, tvars, pvars, cvars>>

\* play with a playlist URL: the loading task is created
LoadPlaylist ==
    /\ registered
    /\ loader.pc = "none"
    /\ \E u \in Users : loader' = [NoLoader EXCEPT !.pc = "first", !.by = u]
    /\ lastOp' = "playlist"
    /\ ret' = "None"
    /\ UNCHANGED <<gvars, rvars, lvars, svars, hvars, qvars, nAdded, tvars, pvars, registered>>

loads_only(pc, vp) == FALSE

\* `if first_track and not player.is_playing()`; first_track is cleared only
\* inside that branch
starts_playback(pc, vp) == pc = "first" /\ ~is_playing(vp)

\* _stream_playlist_to_queue: one turn of the loop for a track the iterator
\* yields; an exception out of play_next() ends the task
LoaderAdds ==
    /\ loader.pc \in {"first", "rest"}
    /\ nAdded < MaxAdds
    /\ nAdded' = nAdded + 1
    /\ LET q == add(queue, Track(nAdded + 1, loader.by))
       IN  IF starts_playback(loader.pc, vcPlayer)
           THEN /\ \E spawnOk \in BOOLEAN : play_next(q, spawnOk)
                /\ loader' = [loader EXCEPT
                                 !.tracks_added = @ + 1,
                                 !.pc = IF ret' \in {"track", "None"} THEN "rest" ELSE "raised"]
           ELSE /\ queue' = q
                /\ ret' = "queued"
                /\ loader' = [loader EXCEPT !.tracks_added = @ + 1]
                /\ UNCHANGED <<current, lastNext, idle_task, idleTasks, vcPlayer, nowPlaying>>
    /\ lastOp' = "load"
    /\ UNCHANGED <<gvars, rvars, lvars, svars, hvars, shuffle, connected, scheduled, stopPc, disconnectCalls, registered>>

\* inside next(iterator): the iterator skips an entry it cannot resolve; the
\* task sees nothing of it
LoaderSkips ==
    /\ loader.pc \in {"first", "rest"}
    /\ loader.skipped < MaxSkips
    /\ loader' = [loader EXCEPT !.skipped = @ + 1]
    /\ lastOp' = "load_skip"
    /\ ret' = "None"
    /\ UNCHANGED <<gvars, rvars, lvars, svars, hvars, qvars, nAdded, tvars, pvars, registered>>

\* `if tracks_added: send(embed=playlist_added_embed(tracks_added, 0))`
playlist_summary(tracks_added, skipped) ==
    [sent |-> tracks_added > 0, tracks |-> tracks_added, failed |-> 0]

\* _stream_playlist_to_queue: the iterator is exhausted (after it yielded the
\* tracks added, or skipped every entry), the summary is sent
LoaderEnds ==
    /\ loader.pc \in {"first", "rest"}
    /\ loader' = [loader EXCEPT
                     !.pc = "done",
                     !.summary = playlist_summary(loader.tracks_added, loader.skipped)]
    /\ lastOp' = "load_end"
    /\ ret' = "None"
    /\ UNCHANGED <<gvars, rvars, lvars, svars, hvars, qvars, nAdded, tvars, pvars, registered>>

\* _stream_playlist_to_queue: the provider lists nothing, the first
\* next(iterator) raises ValueError and the task ends with it
LoaderListingFails ==
    /\ loader.pc = "first"
    /\ loader.tracks_added = 0
    /\ loader.skipped = 0
    /\ loader' = [loader EXCEPT !.pc = "raised"]
    /\ lastOp' = "load_fail"
    /\ ret' = "ValueError"
    /\ UNCHANGED <<gvars, rvars, lvars, svars, hvars, qvars, nAdded, tvars, pvars, registered>>

----------------------------------------------------------------------------
(* Spec: one session, from the creation of its Player *)

Init ==
    /\ queue = <<>>
    /\ current = NoTrack
    /\ shuffle = FALSE
    /\ added = <<>>
    /\ returned = <<>>
    /\ usedShuffle = FALSE
    /\ usedClear = FALSE
    /\ listed = <<>>
    /\ nAdded = 0
    /\ connected = TRUE
    /\ vcPlayer = "none"
    /\ nowPlaying = NoTrack
    /\ scheduled = <<>>
    /\ idle_task = "None"
    /\ idleTasks = 0
    /\ stopPc = "no"
    /\ disconnectCalls = 0
    /\ lastNext = NoTrack
    /\ registered = TRUE
    /\ loader = NoLoader
    /\ NoRegistry
    /\ NoSource
    /\ NoResolver
    /\ NoPlaylist
    /\ lastOp = "init"
    /\ ret = "None"

Next ==
    \/ Play
    \/ LoadPlaylist
    \/ LoaderAdds
    \/ LoaderEnds
    \/ LoaderListingFails
    \/ Pause
    \/ Resume
    \/ Skip
    \/ Stop
    \/ StopReturn
    \/ Clear
    \/ SetShuffle
    \/ StreamEnds
    \/ Completion
    \/ IdleTimeout
    \/ IdleDisconnected

Spec == Init /\ [][Next]_vars

\* SpecLoad: the session with the entries counted that the playlist iterator
\* skips inside next(iterator); a skip changes nothing else of the session
LoadNext == Next \/ LoaderSkips

SpecLoad == Init /\ [][LoadNext]_vars

\* the event loop runs what is ready to run, a sleeping timer elapses, an
\* awaited disconnect ends, a playing stream ends and a playlist is finite
FairSpec ==
    /\ Spec
    /\ WF_vars(Completion)
    /\ WF_vars(IdleTimeout)
    /\ WF_vars(IdleDisconnected)
    /\ WF_vars(StopReturn)
    /\ WF_vars(StreamEnds)
    /\ WF_vars(LoaderAdds \/ LoaderEnds \/ LoaderListingFails)

----------------------------------------------------------------------------
(* YTDLPAudioSource (src/music/player.py): the producer thread             *)
(* (_buffer_loop), and read() and cleanup() as the transport's audio       *)
(* thread calls them.  The waits with a timeout (put, get, wait, join) end *)
(* either because what they wait for happened or because the time is up.   *)

\* a frame of audio read from the transcoder
AudioFrame(n) == [kind |-> "frame", len |-> FRAME_SIZE, frame |-> n]

\* b"\x00" * FRAME_SIZE
Silence == [kind |-> "silence", len |-> FRAME_SIZE, frame |-> 0]

\* b""
EndOfStream == [kind |-> "eof", len |-> 0, frame |-> 0]

\* while not self._stop_event.is_set()
BufTest ==
    /\ bufPc = "test"
    /\ bufPc' = IF stop_event THEN "done" ELSE "read"
    /\ lastOp' = "loop_test"
    /\ UNCHANGED <<buffer_frames, prebuffer_frames, buffer, stop_event, prebuffer_ready,
                   eof, ffmpeg, process, data, frames_buffered, framesLeft, nRead,
                   readPc, readResult, cleanPc, cleanups, kills, delivered, dropped, ret, qvars, hvars, nAdded, tvars, pvars, cvars, gvars, rvars, lvars>>

\* data = self._ffmpeg.stdout.read(FRAME_SIZE): a full frame, or a short
\* read at the end of the stream or when cleanup() kills the transcoder under
\* the read; once cleanup() has set _ffmpeg to None the attribute access
\* raises instead and the thread dies
BufRead ==
    /\ bufPc = "read"
    /\ IF ffmpeg = "running" /\ framesLeft > 0
       THEN /\ data' = nRead + 1
            /\ nRead' = nRead + 1
            /\ framesLeft' = framesLeft - 1
            /\ bufPc' = "put"
            /\ UNCHANGED <<eof, prebuffer_ready>>
       ELSE /\ \/ /\ eof' = TRUE
                  /\ prebuffer_ready' = TRUE
               \/ /\ ffmpeg = "None"
                  /\ UNCHANGED <<eof, prebuffer_ready>>
            /\ bufPc' = "done"
            /\ UNCHANGED <<data, nRead, framesLeft>>
    /\ lastOp' = "loop_read"
    /\ UNCHANGED <<buffer_frames, prebuffer_frames, buffer, stop_event,
                   ffmpeg, process, frames_buffered,
                   readPc, readResult, cleanPc, cleanups, kills, delivered, dropped, ret, qvars, hvars, nAdded, tvars, pvars, cvars, gvars, rvars, lvars>>

put_unbounded(buf, maxsize) == TRUE

\* queue.Queue(maxsize): put() finds room while fewer than maxsize items are
\* held; a maxsize of zero or less means no limit
put_fits(buf, maxsize) == maxsize <= 0 \/ Len(buf) < maxsize

put_front(buf, frame) == <<frame>> \o buf

\* queue.Queue is first in, first out: put() adds at the end, get() takes
\* from the front
buffer_put(buf, frame) == Append(buf, frame)

\* self._buffer.put(data, timeout=1.0) with room in the buffer
BufPut ==
    /\ bufPc = "put"
    /\ put_fits(buffer, buffer_frames)
    /\ buffer' = buffer_put(buffer, data)
    /\ frames_buffered' = frames_buffered + 1
    /\ prebuffer_ready' = (prebuffer_ready \/ frames_buffered + 1 = prebuffer_frames)
    /\ data' = 0
    /\ bufPc' = "test"
    /\ lastOp' = "loop_put"
    /\ UNCHANGED <<buffer_frames, prebuffer_frames, stop_event,
                   eof, ffmpeg, process, framesLeft, nRead,
                   readPc, readResult, cleanPc, cleanups, kills, delivered, dropped, ret, qvars, hvars, nAdded, tvars, pvars, cvars, gvars, rvars, lvars>>

\* self._buffer.put(data, timeout=1.0) on a buffer that stays full: queue.Full,
\* the frame is dropped
BufPutFull ==
    /\ bufPc = "put"
    /\ ~put_fits(buffer, buffer_frames)
    /\ dropped' = dropped \cup {data}
    /\ data' = 0
    /\ bufPc' = "test"
    /\ lastOp' = "loop_full"
    /\ UNCHANGED <<buffer_frames, prebuffer_frames, buffer, stop_event, prebuffer_ready,
                   eof, ffmpeg, process, frames_buffered, framesLeft, nRead,
                   readPc, readResult, cleanPc, cleanups, kills, delivered, ret, qvars, hvars, nAdded, tvars, pvars, cvars, gvars, rvars, lvars>>

\* read() is called
ReadCall ==
    /\ readPc = "idle"
    /\ cleanPc = "idle"
    /\ readPc' = IF prebuffer_ready THEN "get" ELSE "wait"
    /\ lastOp' = "read_call"
    /\ UNCHANGED <<buffer_frames, prebuffer_frames, buffer, stop_event, prebuffer_ready,
                   eof, ffmpeg, process, bufPc, data, frames_buffered, framesLeft, nRead,
                   readResult, cleanPc, cleanups, kills, delivered, dropped, ret, qvars, hvars, nAdded, tvars, pvars, cvars, gvars, rvars, lvars>>

\* self._prebuffer_ready.wait(timeout=10.0) returns
ReadWaited ==
    /\ readPc = "wait"
    /\ readPc' = "get"
    /\ lastOp' = "read_waited"
    /\ UNCHANGED <<buffer_frames, prebuffer_frames, buffer, stop_event, prebuffer_ready,
                   eof, ffmpeg, process, bufPc, data, frames_buffered, framesLeft, nRead,
                   readResult, cleanPc, cleanups, kills, delivered, dropped, ret, qvars, hvars, nAdded, tvars, pvars, cvars, gvars, rvars, lvars>>

\* self._buffer.get(timeout=0.5) finds a frame and read() returns it
ReadGet ==
    /\ readPc = "get"
    /\ buffer # <<>>
    /\ buffer' = Tail(buffer)
    /\ readResult' = AudioFrame(Head(buffer))
    /\ delivered' = Append(delivered, Head(buffer))
    /\ readPc' = "idle"
    /\ lastOp' = "read_return"
    /\ UNCHANGED <<buffer_frames, prebuffer_frames, stop_event, prebuffer_ready,
                   eof, ffmpeg, process, bufPc, data, frames_buffered, framesLeft, nRead,
                   cleanPc, cleanups, kills, dropped, ret, qvars, hvars, nAdded, tvars, pvars, cvars, gvars, rvars, lvars>>

\* self._buffer.get(timeout=0.5) on a buffer that stays empty: queue.Empty
ReadEmpty ==
    /\ readPc = "get"
    /\ buffer = <<>>
    /\ readPc' = "empty"
    /\ lastOp' = "read_empty"
    /\ UNCHANGED <<buffer_frames, prebuffer_frames, buffer, stop_event, prebuffer_ready,
                   eof, ffmpeg, process, bufPc, data, frames_buffered, framesLeft, nRead,
                   readResult, cleanPc, cleanups, kills, delivered, dropped, ret, qvars, hvars, nAdded, tvars, pvars, cvars, gvars, rvars, lvars>>

\* the except branch of read(): b"" at end of stream, silence otherwise
on_empty(atEof) == IF atEof THEN EndOfStream ELSE Silence

ReadReturn ==
    /\ readPc = "empty"
    /\ readResult' = on_empty(eof)
    /\ readPc' = "idle"
    /\ lastOp' = "read_return"
    /\ UNCHANGED <<buffer_frames, prebuffer_frames, buffer, stop_event, prebuffer_ready,
                   eof, ffmpeg, process, bufPc, data, frames_buffered, framesLeft, nRead,
                   cleanPc, cleanups, kills, delivered, dropped, ret, qvars, hvars, nAdded, tvars, pvars, cvars, gvars, rvars, lvars>>

kills_always(handle) == 1

\* `if self._ffmpeg: self._ffmpeg.kill()`: a handle already dropped is not killed
kills_of(handle) == IF handle # "None" THEN 1 ELSE 0

\* cleanup(): self._stop_event.set()
CleanupCall ==
    /\ cleanPc = "idle"
    /\ readPc = "idle"
    /\ cleanups < MaxCleanups
    /\ stop_event' = TRUE
    /\ cleanPc' = "join"
    /\ lastOp' = "cleanup_call"
    /\ UNCHANGED <<buffer_frames, prebuffer_frames, buffer, prebuffer_ready,
                   eof, ffmpeg, process, bufPc, data, frames_buffered, framesLeft, nRead,
                   readPc, readResult, cleanups, kills, delivered, dropped, ret, qvars, hvars, nAdded, tvars, pvars, cvars, gvars, rvars, lvars>>

\* cleanup(): the thread is not alive, or the join(timeout=2.0) of the live
\* thread returns, the thread ended or not
CleanupJoined ==
    /\ cleanPc = "join"
    /\ cleanPc' = "kill"
    /\ lastOp' = "cleanup_joined"
    /\ UNCHANGED <<buffer_frames, prebuffer_frames, buffer, stop_event, prebuffer_ready,
                   eof, ffmpeg, process, bufPc, data, frames_buffered, framesLeft, nRead,
                   readPc, readResult, cleanups, kills, delivered, dropped, ret, qvars, hvars, nAdded, tvars, pvars, cvars, gvars, rvars, lvars>>

\* cleanup(): kill each process whose handle is held, drop the handles, return
CleanupKill ==
    /\ cleanPc = "kill"
    /\ kills' = kills + kills_of(ffmpeg) + kills_of(process)
    /\ ffmpeg' = "None"
    /\ process' = "None"
    /\ cleanPc' = "idle"
    /\ cleanups' = cleanups + 1
    /\ lastOp' = "cleanup_return"
    /\ UNCHANGED <<buffer_frames, prebuffer_frames, buffer, stop_event, prebuffer_ready,
                   eof, bufPc, data, frames_buffered, framesLeft, nRead,
                   readPc, readResult, delivered, dropped, ret, qvars, hvars, nAdded, tvars, pvars, cvars, gvars, rvars, lvars>>

\* one source right after __init__: both processes spawned, the thread
\* started.  play_next() builds every source with the default buffer_seconds,
\* so the capacity int(buffer_seconds * FRAMES_PER_SECOND) is positive.
SInit ==
    /\ buffer_frames \in 1..MaxBuffer
    /\ prebuffer_frames \in 0..MaxPrebuffer
    /\ buffer = <<>>
    /\ stop_event = FALSE
    /\ prebuffer_ready = FALSE
    /\ eof = FALSE
    /\ ffmpeg = "running"
    /\ process = "running"
    /\ bufPc = "test"
    /\ data = 0
    /\ frames_buffered = 0
    /\ framesLeft \in 0..MaxStream
    /\ nRead = 0
    /\ readPc = "idle"
    /\ readResult = NoResult
    /\ cleanPc = "idle"
    /\ cleanups = 0
    /\ kills = 0
    /\ delivered = <<>>
    /\ dropped = {}
    /\ NoQueue
    /\ NoSession
    /\ NoRegistry
    /\ NoResolver
    /\ NoPlaylist
    /\ lastOp = "init"
    /\ ret = "None"

SNext ==
    \/ BufTest
    \/ BufRead
    \/ BufPut
    \/ BufPutFull
    \/ ReadCall
    \/ ReadWaited
    \/ ReadGet
    \/ ReadEmpty
    \/ ReadReturn
    \/ CleanupCall
    \/ CleanupJoined
    \/ CleanupKill

SpecSource == SInit /\ [][SNext]_vars

----------------------------------------------------------------------------
(* SpecResolve: one call of Resolver.resolve, for every input and every    *)
(* answer of the providers                                                 *)

RInit ==
    /\ query \in Queries
    /\ ytmusic \in [SearchStrings -> SearchResults]
    /\ spotify_info \in SpotifyInfos
    /\ video_metadata \in {VideoNone, VideoFound(query)}
    /\ listing \in IF detect_input_type(query) \in {"youtube_playlist", "spotify_playlist"}
                   THEN {ls \in Listings : ls.len <= MaxShort}
                   ELSE {NoListing}
    /\ result = NotCalled
    /\ NoIterator
    /\ NoQueue
    /\ NoSession
    /\ NoRegistry
    /\ NoSource
    /\ lastOp = "init"
    /\ ret = "None"

Resolve ==
    /\ result = NotCalled
    /\ result' = resolve(query, ytmusic, spotify_info, video_metadata, listing)
    /\ lastOp' = "resolve"
    /\ ret' = result'.kind
    /\ UNCHANGED <<query, ytmusic, spotify_info, video_metadata, lvars, gvars,
                   qvars, hvars, nAdded, tvars, pvars, cvars, svars>>

RNext == Resolve

SpecResolve == RInit /\ [][RNext]_vars

----------------------------------------------------------------------------
(* SpecPlaylist: one playlist iterator, from the generator's creation, one *)
(* turn of its loop at a time                                              *)

LInit ==
    /\ plType \in {"youtube", "spotify"}
    /\ listing \in Listings
    /\ itPc = "created"
    /\ itPos = 0
    /\ nYielded = 0
    /\ lastYielded = 0
    /\ nSkipped = 0
    /\ NoResolver
    /\ NoQueue
    /\ NoSession
    /\ NoRegistry
    /\ NoSource
    /\ lastOp = "init"
    /\ ret = "None"

\* the first next(): the provider is asked for the listing; an empty one
\* raises ValueError
IterStart ==
    /\ itPc = "created"
    /\ IF listing.len = 0
       THEN itPc' = "raised" /\ ret' = "ValueError"
       ELSE itPc' = "running" /\ ret' = "None"
    /\ lastOp' = "iter_start"
    /\ UNCHANGED <<plType, listing, itPos, nYielded, lastYielded, nSkipped,
                   gvars, rvars, qvars, hvars, nAdded, tvars, pvars, cvars, svars>>

\* one turn of the for loop: the entry is skipped, or its Track is yielded
IterTurn ==
    /\ itPc = "running"
    /\ itPos < iter_limit(listing)
    /\ itPos' = itPos + 1
    /\ LET outcome == entry_outcome(plType, listing, itPos + 1)
       IN  /\ lastOp' = outcome
           /\ ret' = IF outcome = "raise" THEN "ValueError" ELSE "None"
           /\ itPc' = IF outcome = "raise" THEN "raised" ELSE itPc
           /\ nYielded' = IF outcome = "yield" THEN nYielded + 1 ELSE nYielded
           /\ lastYielded' = IF outcome = "yield" THEN itPos + 1 ELSE lastYielded
           /\ nSkipped' = IF outcome = "skip" THEN nSkipped + 1 ELSE nSkipped
    /\ UNCHANGED <<plType, listing,
                   gvars, rvars, qvars, hvars, nAdded, tvars, pvars, cvars, svars>>

\* the loop is over: StopIteration
IterStop ==
    /\ itPc = "running"
    /\ itPos >= iter_limit(listing)
    /\ itPc' = "done"
    /\ lastOp' = "stop_iteration"
    /\ ret' = "StopIteration"
    /\ UNCHANGED <<plType, listing, itPos, nYielded, lastYielded, nSkipped,
                   gvars, rvars, qvars, hvars, nAdded, tvars, pvars, cvars, svars>>

LNext == IterStart \/ IterTurn \/ IterStop

SpecPlaylist == LInit /\ [][LNext]_vars

----------------------------------------------------------------------------
(* SpecRegistry: the two registries of the bot (QueueManager,               *)
(* PlayerManager), as the commands of src/bot.py and the disconnect         *)
(* callback of each player read and change them.  Between the first and the *)
(* last registry access of a command there is no await, except in stop,     *)
(* whose two removals follow its await.                                     *)

Guilds == 1..MaxGuilds

\* QueueManager.get: get or create
queues_get(qs, guild_id) == qs \cup {guild_id}

\* PlayerManager.get: the player, or None
players_get(ps, guild_id) == guild_id \in ps

\* PlayerManager.create
players_create(ps, guild_id) == ps \cup {guild_id}

\* QueueManager.remove, PlayerManager.remove: pop(guild_id, None)
registry_remove(reg, guild_id) == reg \ {guild_id}

\* what a /play turns out to be: the user is in no voice channel, the query
\* is a playlist URL, resolve() raises, or resolve() returns a track
PlayOutcomes == {"no_voice", "playlist", "unresolved", "track"}

\* /play
CmdPlay(guild_id) ==
    /\ \E outcome \in PlayOutcomes :
         /\ IF outcome = "no_voice"
            THEN UNCHANGED <<queues, players>>
            ELSE /\ queues' = queues_get(queues, guild_id)
                 /\ players' = IF outcome = "unresolved"
                               THEN players
                               ELSE players_create(players, guild_id)
         /\ ret' = outcome
    /\ lastOp' = "cmd_play"
    /\ UNCHANGED <<qvars, hvars, nAdded, tvars, pvars, cvars, svars, rvars, lvars>>

\* /skip: the queue registry is asked only when the guild has a player
CmdSkip(guild_id) ==
    /\ IF players_get(players, guild_id)
       THEN queues' = queues_get(queues, guild_id) /\ ret' = "skipped"
       ELSE queues' = queues /\ ret' = "nothing"
    /\ lastOp' = "cmd_skip"
    /\ UNCHANGED <<players, qvars, hvars, nAdded, tvars, pvars, cvars, svars, rvars, lvars>>

\* /stop: player.stop() runs on_disconnect, then the command removes both
\* entries again
CmdStop(guild_id) ==
    /\ IF players_get(players, guild_id)
       THEN /\ players' = registry_remove(players, guild_id)
            /\ queues' = registry_remove(queues, guild_id)
            /\ ret' = "stopped"
       ELSE UNCHANGED <<queues, players>> /\ ret' = "nothing"
    /\ lastOp' = "cmd_stop"
    /\ UNCHANGED <<qvars, hvars, nAdded, tvars, pvars, cvars, svars, rvars, lvars>>

\* /pause and /resume only look the player up
CmdPauseResume(guild_id) ==
    /\ ret' = IF players_get(players, guild_id) THEN "player" ELSE "nothing"
    /\ lastOp' \in {"cmd_pause", "cmd_resume"}
    /\ UNCHANGED <<gvars, qvars, hvars, nAdded, tvars, pvars, cvars, svars, rvars, lvars>>

\* /queue, /clear and /shuffle: queue = bot.queues.get(guild_id)
CmdQueueOnly(guild_id) ==
    /\ queues' = queues_get(queues, guild_id)
    /\ lastOp' \in {"cmd_queue", "cmd_clear", "cmd_shuffle"}
    /\ ret' = "None"
    /\ UNCHANGED <<players, qvars, hvars, nAdded, tvars, pvars, cvars, svars, rvars, lvars>>

\* on_disconnect of the guild's player, called by its idle timer
OnDisconnect(guild_id) ==
    /\ players_get(players, guild_id)
    /\ players' = registry_remove(players, guild_id)
    /\ queues' = registry_remove(queues, guild_id)
    /\ lastOp' = "on_disconnect"
    /\ ret' = "None"
    /\ UNCHANGED <<qvars, hvars, nAdded, tvars, pvars, cvars, svars, rvars, lvars>>

\* MusicBot.__init__: both registries empty
GInit ==
    /\ NoRegistry
    /\ NoQueue
    /\ NoSession
    /\ NoSource
    /\ NoResolver
    /\ NoPlaylist
    /\ lastOp = "init"
    /\ ret = "None"

GNext ==
    \E guild_id \in Guilds :
        \/ CmdPlay(guild_id)
        \/ CmdSkip(guild_id)
        \/ CmdStop(guild_id)
        \/ CmdPauseResume(guild_id)
        \/ CmdQueueOnly(guild_id)
        \/ OnDisconnect(guild_id)

SpecRegistry == GInit /\ [][GNext]_vars

----------------------------------------------------------------------------
(* Claims about one session, checked under Spec                            *)

\* the operations that call play_next(): the play command, the playlist
\* loader, and the completion callbacks
PlayNextOps == {"play", "load", "after_end", "after_skip", "after_disconnect"}

\* play_next() was the last thing to run
RanPlayNext == lastOp \in PlayNextOps /\ ret # "queued"

\* C2: every track play_next() removes from the queue (and builds a stream
\* for) is handed to the transport and played, whichever way completion
\* callbacks and command-layer calls of play_next() interleave on a connected
\* session.
C2_PoppedTrackIsPlayed ==
    (RanPlayNext /\ connected /\ ret \notin {"None", "FileNotFoundError"})
        => (ret = "track" /\ vcPlayer = "playing" /\ nowPlaying = current)

\* C3: once play_next() has found the queue empty and armed the idle timer,
\* the transport is eventually disconnected and the disconnect callback
\* invoked, unless a track is started first.
C3_IdleTimerDisconnects ==
    (idle_task = "sleeping")
        ~> ((~connected /\ disconnectCalls > 0) \/ vcPlayer = "playing")

\* C4: when the external processes of the popped track cannot be spawned,
\* play_next() still leaves the session playing a track or with the idle
\* timer armed.
C4_SpawnFailureAdvances ==
    (RanPlayNext /\ ret = "FileNotFoundError")
        => (is_playing(vcPlayer) \/ idle_task = "sleeping")

\* C5: when stop() returns, no idle timer is pending, the pending sequence
\* and current are empty, the transport is disconnected and the disconnect
\* callback has been invoked.
C5_StopPostcondition ==
    lastOp = "stop_return" =>
        /\ idle_task \notin {"sleeping", "disconnecting"}
        /\ queue = <<>>
        /\ current = NoTrack
        /\ ~connected
        /\ disconnectCalls >= 1

\* C7 as stated: current is always the track the last next() returned (empty
\* only if next() was never called or last found nothing pending), and only
\* next() changes it.
C7_CurrentIsLastNext ==
    /\ [](current = lastNext)
    /\ [][current' # current => (lastOp' \in PlayNextOps /\ ret' # "queued")]_vars

\* C7 as amended: current is the track the last next() returned, or empty
\* once stop() has run; it is changed only by next() and by stop(), never by
\* add, clear, pause, resume or skip.
C7_CurrentIsLastNextOrStopped ==
    /\ [](current = lastNext \/ (current = NoTrack /\ stopPc # "no"))
    /\ [][current' # current =>
            \/ lastOp' \in PlayNextOps /\ ret' # "queued" /\ current' = lastNext'
            \/ lastOp' \in {"stop", "stop_return"} /\ current' = NoTrack]_vars

\* stop() has emptied current after next() had returned a track
C7_Witness ==
    /\ lastOp \in {"stop", "stop_return"}
    /\ lastNext # NoTrack
    /\ current = NoTrack

\* C8: pause() returns true and pauses the transport only when it is playing,
\* resume() returns true and resumes it only when it is paused; otherwise each
\* returns false and changes nothing; neither touches the pending sequence,
\* current or the idle timer.
C8_PauseResume ==
    [][/\ lastOp' = "pause" =>
            /\ IF vcPlayer = "playing"
               THEN ret' = "True" /\ vcPlayer' = "paused"
               ELSE ret' = "False" /\ vcPlayer' = vcPlayer
            /\ UNCHANGED <<qvars, connected, nowPlaying, scheduled, pvars, cvars>>
       /\ lastOp' = "resume" =>
            /\ IF vcPlayer = "paused"
               THEN ret' = "True" /\ vcPlayer' = "playing"
               ELSE ret' = "False" /\ vcPlayer' = vcPlayer
            /\ UNCHANGED <<qvars, connected, nowPlaying, scheduled, pvars, cvars>>]_vars

\* a paused track has just been resumed
C8_Witness ==
    /\ lastOp = "resume" /\ ret = "True"
    /\ vcPlayer = "playing" /\ nowPlaying # NoTrack

\* C9: skip() changes nothing while the transport is neither playing nor
\* paused; otherwise it stops the stream and one completion callback is
\* scheduled, whose play_next() starts the next pending track, or arms the
\* idle timer when none is pending.
C9_SkipAdvances ==
    [][/\ lastOp' = "skip" =>
            IF is_playing(vcPlayer)
            THEN /\ vcPlayer' = "none"
                 /\ scheduled' = Append(scheduled, "skip")
                 /\ UNCHANGED <<qvars, connected, pvars, cvars>>
            ELSE UNCHANGED <<qvars, tvars, pvars, cvars>>
       /\ lastOp' = "after_skip" =>
            /\ scheduled' = Tail(scheduled)
            /\ IF queue # <<>>
               THEN ret' = "track" /\ vcPlayer' = "playing" /\ nowPlaying' = current'
               ELSE ret' = "None" /\ idle_task' = "sleeping"]_vars

----------------------------------------------------------------------------
(* Claims about one audio source, checked under SpecSource *)

\* C1: read() returns 3840 zero bytes when it finds the buffer empty and end
\* of stream is not marked, and returns the empty result only when end of
\* stream is marked and no produced frame remains in the buffer.
C1_ReadContract ==
    lastOp = "read_return" =>
        /\ readResult.kind = "silence" => readResult.len = FRAME_SIZE
        /\ readResult.kind = "eof" => (eof /\ buffer = <<>>)

----------------------------------------------------------------------------
(* Claims about one GuildQueue, checked under SpecQueue *)

\* a step in which next() took a track from the pending sequence
TookTrack == lastOp' = "next" /\ ret' = "track" /\ returned' # returned

\* C6: with shuffle enabled and pending non-empty, if some pending track has a
\* requested_by other than current's (None when there is no current), next()
\* returns a track of another requester; it returns a track of the same
\* requester only when every pending track is of that requester.
C6_FairShuffle ==
    [][(TookTrack /\ shuffle) =>
          LET prev == prev_requester(current)
          IN  /\ \E i \in DOMAIN queue : current' = queue[i] /\ queue' = RemoveAt(queue, i)
              /\ (\E i \in DOMAIN queue : queue[i].requested_by # prev)
                    => current'.requested_by # prev
              /\ current'.requested_by = prev
                    => \A i \in DOMAIN queue : queue[i].requested_by = prev]_vars

\* next() has just preferred another requester's track over one, still
\* pending, of the requester whose track was returned before it
C6_Witness ==
    /\ lastOp = "next" /\ ret = "track" /\ shuffle
    /\ Len(returned) >= 2
    /\ returned[Len(returned)].requested_by # returned[Len(returned) - 1].requested_by
    /\ \E i \in DOMAIN queue :
         queue[i].requested_by = returned[Len(returned) - 1].requested_by

\* C10: with shuffle never used and no clear, the tracks returned by next() are
\* a prefix of the tracks passed to add(), and the pending sequence is the rest:
\* each next() on a non-empty queue removed and returned the oldest pending track.
C10_FifoPrefix ==
    (~usedShuffle /\ ~usedClear) =>
        /\ Len(returned) <= Len(added)
        /\ returned = SubSeq(added, 1, Len(returned))
        /\ queue = SubSeq(added, Len(returned) + 1, Len(added))

\* two tracks have been returned in FIFO mode while a later one is still pending
C10_Witness ==
    /\ ~usedShuffle /\ ~usedClear /\ ~shuffle
    /\ lastOp = "next" /\ ret = "track"
    /\ Len(returned) = 2 /\ Len(queue) = 1

\* C11: list() returns exactly the pending tracks, oldest first (with shuffle
\* never used they are the most recently added tracks, in the order of their
\* add() calls), never includes current, and is a snapshot: the call changes
\* nothing of the queue.
C11_ListIsPendingSnapshot ==
    /\ [][lastOp' = "list" =>
            /\ listed' = queue
            /\ UNCHANGED qvars
            /\ \A i, j \in DOMAIN listed' : i < j => listed'[i].id < listed'[j].id
            /\ ~usedShuffle =>
                  listed' = SubSeq(added, Len(added) - Len(queue) + 1, Len(added))
            /\ current # NoTrack => \A i \in DOMAIN listed' : listed'[i] # current]_vars

\* list() has returned two pending tracks while an earlier one is current
C11_Witness ==
    /\ lastOp = "list" /\ ~usedShuffle /\ ~shuffle
    /\ current # NoTrack
    /\ Len(listed) = 2 /\ listed = queue

\* C12: next() on an empty pending sequence returns empty and leaves current
\* empty, whatever the shuffle setting and whatever current was; a repeated
\* next() on the empty queue returns the same and leaves the same state.
C12_NextOnEmpty ==
    [][(lastOp' = "next" /\ queue = <<>>) =>
          /\ ret' = "None"
          /\ current' = NoTrack
          /\ queue' = <<>>
          /\ shuffle' = shuffle
          /\ (lastOp = "next" /\ ret = "None") => (ret' = ret /\ UNCHANGED qvars)]_vars

\* next() has found the queue empty after it had returned tracks, with
\* shuffle enabled
C12_Witness ==
    /\ lastOp = "next" /\ ret = "None"
    /\ shuffle /\ Len(returned) >= 1
    /\ queue = <<>> /\ current = NoTrack

\* C13: clear() empties the pending sequence and leaves current and the
\* shuffle setting as they were, in every state.
C13_ClearFrame ==
    [][lastOp' = "clear" =>
          /\ queue' = <<>>
          /\ current' = current
          /\ shuffle' = shuffle]_vars

\* clear() has dropped pending tracks while a track is current and shuffle
\* is enabled
C13_Witness ==
    /\ lastOp = "clear" /\ queue = <<>>
    /\ current # NoTrack /\ shuffle
    /\ Len(added) > Len(returned)

----------------------------------------------------------------------------
(* More claims about one audio source, checked under SpecSource *)

\* the steps of cleanup()
CleanupOps == {"cleanup_call", "cleanup_joined", "cleanup_return"}

\* C14: cleanup() sets the stop signal, waits for the producer loop, then
\* kills both processes and drops both handles; a second cleanup(), called
\* after the first has returned and in any state of the producer loop, kills
\* nothing and leaves the state of the source as it was.
C14_CleanupTwice ==
    /\ [](cleanPc \in {"join", "kill"} => stop_event)
    /\ [](cleanups >= 1 =>
            /\ stop_event
            /\ ffmpeg = "None" /\ process = "None"
            /\ kills = 2)
    /\ [][kills' # kills => (cleanPc = "kill" /\ stop_event /\ cleanups = 0)]_vars
    /\ [][(cleanups >= 1 /\ lastOp' \in CleanupOps) =>
            UNCHANGED <<buffer_frames, prebuffer_frames, buffer, stop_event,
                        prebuffer_ready, eof, ffmpeg, process, bufPc, data,
                        frames_buffered, framesLeft, nRead, readResult, kills>>]_vars

\* a second cleanup() has returned while the producer loop, which outlived
\* the first one's join, has not ended
C14_Witness ==
    /\ lastOp = "cleanup_return"
    /\ cleanups = 2
    /\ bufPc # "done"

\* C15: the frame buffer never holds more than its capacity; a push that
\* finds it still full when its timeout ends discards that frame and goes on
\* to the next turn of the loop, without growing the buffer and without ending
\* the producer loop; the discarded frame never reaches the buffer.
C15_BoundedBuffer ==
    /\ [](Len(buffer) <= buffer_frames)
    /\ [][lastOp' = "loop_full" =>
            /\ Len(buffer) = buffer_frames
            /\ buffer' = buffer
            /\ frames_buffered' = frames_buffered
            /\ bufPc' = "test"
            /\ UNCHANGED <<eof, stop_event>>]_vars
    /\ [][(bufPc = "put" /\ bufPc' # "put") =>
            IF Len(buffer) < buffer_frames
            THEN buffer' = Append(buffer, data)
            ELSE buffer' = buffer /\ bufPc' = "test"]_vars
    /\ [](\A i \in DOMAIN buffer : buffer[i] <= nRead)

\* after a frame was discarded on a full buffer the producer has read on and
\* pushed a later frame
C15_Witness ==
    /\ lastOp = "loop_put"
    /\ frames_buffered < nRead
    /\ Len(buffer) = buffer_frames
    /\ bufPc = "test"

----------------------------------------------------------------------------
(* Claims about Resolver.resolve, checked under SpecResolve *)

\* the input is a video URL: it holds "youtube.com/watch", "youtu.be/" or
\* "music.youtube.com", and not "youtube.com/playlist"
IsVideoUrl(q) ==
    /\ "youtube.com/playlist" \notin q.markers
    /\ q.markers \cap {"youtube.com/watch", "youtu.be/", "music.youtube.com"} # {}

\* the input is a catalog-track URL: it holds "open.spotify.com/track" or
\* "spotify:track:" and is no video or video-playlist URL
IsCatalogTrackUrl(q) ==
    /\ q.markers \cap {"open.spotify.com/track", "spotify:track:"} # {}
    /\ q.markers \cap {"youtube.com/playlist", "youtube.com/watch", "youtu.be/",
                       "music.youtube.com"} = {}

\* the input is free text: it holds none of the substrings
IsFreeText(q) == q.markers = {}

\* resolve() has returned or raised
Resolved == lastOp = "resolve" /\ result # NotCalled

\* C16: resolve() on a video URL returns exactly one Track, whose playback
\* URL and source URL both equal the input, when the video provider returns
\* metadata; otherwise it raises ValueError and returns nothing.
C16_VideoUrl ==
    (Resolved /\ IsVideoUrl(query)) =>
        IF video_metadata.found
        THEN /\ result.kind = "tracks"
             /\ Len(result.tracks) = 1
             /\ result.tracks[1].youtube_url = query
             /\ result.tracks[1].source_url = query
        ELSE /\ result.kind = "ValueError"
             /\ result.tracks = <<>>

\* a watch URL has been resolved to its one Track
C16_Witness ==
    /\ Resolved /\ query = Url({"youtube.com/watch"}, "song")
    /\ result.kind = "tracks"
    /\ result.tracks[1].youtube_url = query

\* C17: resolve() on a catalog-track URL returns one Track whose source URL
\* is the input, whose title, artist and duration are the scraping provider's,
\* and whose playback URL is the watch URL of the video id found by searching
\* "{title} {artist}", which differs from the source URL; when the search (or
\* the scraping provider) finds nothing it raises instead of returning a Track.
C17_CatalogTrack ==
    (Resolved /\ IsCatalogTrackUrl(query)) =>
        LET artist == IF spotify_info.artists # <<>> THEN spotify_info.artists[1] ELSE ""
            search == ytmusic[spotify_info.name \o " " \o artist]
        IN  IF spotify_info.found /\ search.found
            THEN /\ result.kind = "tracks"
                 /\ Len(result.tracks) = 1
                 /\ result.tracks[1].source_url = query
                 /\ result.tracks[1].title = spotify_info.name
                 /\ result.tracks[1].artist = artist
                 /\ result.tracks[1].duration_ms = spotify_info.duration_ms
                 /\ result.tracks[1].youtube_url = WatchUrl(search.video_id)
                 /\ result.tracks[1].youtube_url # result.tracks[1].source_url
            ELSE /\ result.kind = "ValueError"
                 /\ result.tracks = <<>>

\* a catalog-track URL has been resolved through the search for its title
\* and artist, which finds another video than the other searches do
C17_Witness ==
    /\ Resolved /\ query = Url({"open.spotify.com/track"}, "song")
    /\ spotify_info = SpotifyTrack(<<"A">>)
    /\ ytmusic["T A"] = SearchFound("v2")
    /\ ytmusic["T "] = SearchFound("v1") /\ ytmusic["song"] = SearchFound("v1")
    /\ result.kind = "tracks"
    /\ result.tracks[1].youtube_url = WatchUrl("v2")

\* C20: for free-text, video-URL and catalog-track-URL input resolve() either
\* returns a list of exactly one Track with a playback URL that is not empty,
\* or raises ValueError with a reason; it never returns an empty list.
C20_OneTrackOrTypedError ==
    (Resolved /\ (IsFreeText(query) \/ IsVideoUrl(query) \/ IsCatalogTrackUrl(query))) =>
        \/ /\ result.kind = "tracks"
            /\ Len(result.tracks) = 1
            /\ result.tracks[1].youtube_url # EmptyUrl
            /\ result.tracks[1].youtube_url.markers # {}
        \/ /\ result.kind = "ValueError"
            /\ result.reason # ""
            /\ result.tracks = <<>>

\* a free-text search that found nothing has raised
C20_Witness ==
    /\ Resolved /\ query = Url({}, "song")
    /\ ytmusic["song"] = SearchNone
    /\ result.kind = "ValueError"

----------------------------------------------------------------------------
(* Claims about a playlist iterator, checked under SpecPlaylist *)

\* C18: for every listing the iterator yields at most 500 tracks, in listing
\* order, one for each entry among the first 500 that gives a track; an entry
\* without an id, or one for which the search fails, is skipped and does not
\* end the sequence.
C18_PlaylistCap ==
    /\ [](nYielded <= MAX_PLAYLIST_TRACKS)
    /\ [][lastOp' \in {"yield", "skip", "raise"} =>
            /\ itPos' = itPos + 1
            /\ itPos' <= listing.len /\ itPos' <= MAX_PLAYLIST_TRACKS
            /\ itPc' = "running"
            /\ IF itPos' \in listing.bad
               THEN lastOp' = "skip" /\ nYielded' = nYielded /\ lastYielded' = lastYielded
               ELSE /\ lastOp' = "yield" /\ nYielded' = nYielded + 1
                    /\ lastYielded' = itPos' /\ lastYielded' > lastYielded]_vars
    /\ [](itPc = "done" =>
            LET first == {i \in 1..listing.len : i <= MAX_PLAYLIST_TRACKS}
            IN  /\ itPos = Cardinality(first)
                /\ nYielded = Cardinality({i \in first : i \notin listing.bad})
                /\ nSkipped = Cardinality({i \in first : i \in listing.bad}))
    /\ [](itPc = "raised" => listing.len = 0)

\* the iterator has ended on a listing of more than 500 entries, two of the
\* first 500 skipped
C18_Witness ==
    /\ itPc = "done"
    /\ listing.len > MAX_PLAYLIST_TRACKS
    /\ listing.bad = {1, MAX_PLAYLIST_TRACKS}
    /\ nYielded = MAX_PLAYLIST_TRACKS - 2
    /\ nSkipped = 2

----------------------------------------------------------------------------
(* Claims about the playlist loader, checked under SpecLoad *)

\* C19: when the loading of a playlist finishes, the summary reports the
\* number of tracks added and the number of entries that failed to resolve,
\* which is the number of entries that were skipped.
C19_SummaryCountsFailures ==
    (loader.pc = "done" /\ loader.tracks_added > 0) =>
        /\ loader.summary.sent
        /\ loader.summary.tracks = loader.tracks_added
        /\ loader.summary.failed = loader.skipped

----------------------------------------------------------------------------
(* More claims about one session, checked under Spec *)

\* the idle task has been created and has neither finished nor been cancelled
TimerPending == idle_task \in {"sleeping", "disconnecting"}

\* C21: in every reachable state, a pending idle timer implies that the
\* transport is neither playing nor paused.
C21_TimerOnlyWhenIdle == TimerPending => ~is_playing(vcPlayer)

\* C22: at most one idle timer is pending per controller at any time, and
\* the pending one is the task the controller refers to.
C22_AtMostOneTimer ==
    /\ idleTasks <= 1
    /\ idleTasks = (IF TimerPending THEN 1 ELSE 0)

\* a second play_next() that found the queue empty has armed the timer, after
\* both tracks of the session were popped by calls that cancel it
C22_Witness ==
    /\ RanPlayNext /\ ret = "None"
    /\ idle_task = "sleeping" /\ idleTasks = 1
    /\ nAdded >= 2 /\ queue = <<>>
    /\ stopPc = "no"

\* C23: a disconnect of the transport that the idle timer started is followed
\* by the disconnect callback, invoked once by whatever ends the timer's
\* task, also when play_next() cancels the timer while the disconnect is
\* awaited.
C23_TimerDisconnectCallsBack ==
    [][(idle_task = "disconnecting" /\ idle_task' # "disconnecting")
          => disconnectCalls' = disconnectCalls + 1]_vars

\* C24: after stop() has completed, a play_next() on that controller (from a
\* completion callback or from a playlist-loading task that is still
\* running) removes no track from the queue and leaves the transport as it
\* was.
C24_TerminalAfterStop ==
    [][(stopPc = "returned" /\ RanPlayNext')
          => (lastNext' = NoTrack /\ UNCHANGED <<vcPlayer, nowPlaying>>)]_vars

\* play_next() built a stream source: the external processes were spawned
SpawnedSource == RanPlayNext /\ ret \notin {"None", "FileNotFoundError"}

\* C25: no play_next() leaves a stream source whose processes it spawned
\* without having handed it to the transport, which cleans it up when the
\* playback ends; play_next() itself cleans no source up.
C25_SpawnedSourceIsHandedOver == SpawnedSource => ret = "track"

\* a transition of the controller has begun and not finished: stop() or the
\* idle timer's task is awaiting the disconnect of the transport
InTransition == stopPc = "awaiting" \/ idle_task = "disconnecting"

\* the operations that begin a transition of the controller
StartsTransition ==
    \/ RanPlayNext
    \/ lastOp \in {"pause", "resume", "skip", "stop", "idle_timeout"}
    \/ lastOp = "stop_return" /\ stopPc # "returned"

\* C26: no transition of a controller (play_next, pause, resume, skip, stop,
\* idle-timeout disconnect) starts while another one has begun and not yet
\* finished.
C26_TransitionsSerialized ==
    [][InTransition => ~StartsTransition']_vars

----------------------------------------------------------------------------
(* More claims about one audio source, checked under SpecSource *)

\* C27: for any buffer and prebuffer sizes, read() waits for the prebuffer
\* readiness only on the very first call: a call that waits is a call made
\* before any read() has returned.
C27_WaitsOnFirstReadOnly ==
    [][(readPc = "idle" /\ readPc' = "wait") => readResult = NoResult]_vars

----------------------------------------------------------------------------
(* Claims about the registries, checked under SpecRegistry *)

\* C28: in every reachable state the queue registry has an entry for a guild
\* exactly when the player registry has one.
C28_RegistriesAgree == \A guild_id \in Guilds : guild_id \in queues <=> guild_id \in players

----------------------------------------------------------------------------
(* More claims about the playlist loader, checked under Spec *)

\* the track the loading task makes of the entry it resolves next
LoadedTrack == Track(nAdded + 1, loader.by)

\* C29: each turn of the loading task's loop puts the track just resolved,
\* with requested_by set to the requester of the playlist, at the tail of the
\* session's queue before the next entry is resolved (or into current, when
\* the play_next() of the same turn popped it); and when the controller is
\* not playing as the first track has been added, that turn calls
\* play_next().
C29_LoaderAddsInOrder ==
    [][(lastOp' = "load" /\ loader' # loader) =>
          /\ loader.by \in Users
          /\ loader'.tracks_added = loader.tracks_added + 1
          /\ \/ queue' # <<>> /\ queue'[Len(queue')] = LoadedTrack
             \/ current' = LoadedTrack
          /\ \A i \in 1..Len(queue') : \A j \in 1..Len(queue') :
                 i < j => queue'[i].id < queue'[j].id
          /\ (loader.tracks_added = 0 /\ ~is_playing(vcPlayer)) => RanPlayNext'
          /\ ~RanPlayNext' => queue' = Append(queue, LoadedTrack)]_vars

\* the task has added its second track behind its first, after the turn of
\* the first one called play_next()
C29_Witness ==
    /\ lastOp = "load" /\ ret = "queued"
    /\ loader.tracks_added = 2 /\ loader.pc = "rest"
    /\ Len(queue) >= 1
    /\ queue[Len(queue)] = Track(nAdded, loader.by)
    /\ is_playing(vcPlayer)

----------------------------------------------------------------------------
(* More claims about one session, checked under Spec *)

\* C30: whenever the transport is playing or paused, queue.current is the
\* track whose stream source was handed to the transport last.
C30_CurrentIsAudible == is_playing(vcPlayer) => current = nowPlaying

----------------------------------------------------------------------------
(* More claims about one GuildQueue, checked under SpecQueue *)

\* the tracks of a sequence, as a set
TracksOf(q) == {q[i] : i \in DOMAIN q}

\* no track occurs twice in the sequence
NoRepeat(q) == \A i, j \in DOMAIN q : i # j => q[i] # q[j]

\* the added tracks that are neither pending nor returned
Discarded == (TracksOf(added) \ TracksOf(queue)) \ TracksOf(returned)

\* C31: every added track is at each moment in exactly one place: pending,
\* returned by next(), or discarded by clear(); next() returns no track twice
\* and none that was not added; and the track next() takes leaves the other
\* pending tracks in their order, in shuffle mode too.
C31_TracksConserved ==
    /\ [](/\ NoRepeat(queue)
          /\ NoRepeat(returned)
          /\ TracksOf(queue) \cap TracksOf(returned) = {}
          /\ TracksOf(queue) \cup TracksOf(returned) \subseteq TracksOf(added)
          /\ Discarded # {} => usedClear)
    /\ [][/\ TookTrack =>
                /\ \E i \in DOMAIN queue :
                       /\ returned' = Append(returned, queue[i])
                       /\ queue' = RemoveAt(queue, i)
                /\ Discarded' = Discarded
          /\ lastOp' = "clear" =>
                /\ Discarded' = Discarded \cup TracksOf(queue)
                /\ returned' = returned
          /\ lastOp' \in {"add", "shuffle", "list"} =>
                /\ Discarded' = Discarded
                /\ returned' = returned]_vars

\* in shuffle mode next() has taken the second of three pending tracks; the
\* first and the third are pending, in that order
C31_Witness ==
    /\ lastOp = "next" /\ ret = "track" /\ shuffle
    /\ Len(added) = 3
    /\ returned = <<added[2]>>
    /\ queue = <<added[1], added[3]>>

----------------------------------------------------------------------------
(* More claims about one audio source, checked under SpecSource *)

\* the full frames the producer has read from the transcoder, by number, in
\* the order it read them
FramesRead == 1..nRead

\* the frame numbers of a sequence, as a set
FramesOf(buf) == {buf[i] : i \in DOMAIN buf}

\* the frame the producer has read and not yet put
InHand == IF data # 0 THEN {data} ELSE {}

\* C32: the audio frames read() returns are, in order, a subsequence of the
\* full frames the producer read: none is delivered twice or out of order,
\* and a frame that was read and not delivered was discarded on a full
\* buffer, or is still with the producer or in the buffer (where cleanup
\* leaves it).
C32_FramesInOrder ==
    /\ [](/\ \A i, j \in DOMAIN delivered : i < j => delivered[i] < delivered[j]
          /\ \A i, j \in DOMAIN buffer : i < j => buffer[i] < buffer[j]
          /\ \A i \in DOMAIN delivered : \A j \in DOMAIN buffer : delivered[i] < buffer[j]
          /\ FramesOf(delivered) \subseteq FramesRead
          /\ FramesRead \ FramesOf(delivered) = (dropped \cup FramesOf(buffer)) \cup InHand
          /\ dropped \cap FramesOf(buffer) = {}
          /\ dropped \cap FramesOf(delivered) = {})
    /\ [][lastOp' = "read_return" =>
            IF readResult'.kind = "frame"
            THEN /\ buffer # <<>>
                 /\ readResult' = AudioFrame(Head(buffer))
                 /\ delivered' = Append(delivered, Head(buffer))
            ELSE delivered' = delivered]_vars

\* read() has returned a later frame after an earlier one, and a frame read
\* between them was discarded on the full buffer
C32_Witness ==
    /\ lastOp = "read_return" /\ readResult.kind = "frame"
    /\ Len(delivered) >= 2
    /\ \E n \in dropped : delivered[1] < n /\ n < delivered[Len(delivered)]

====
